---- MODULE Spec2Model ----
(***************************************************************************)
(* gp_merge_clips: locating the chapters of GoPro recordings in a flat     *)
(* directory (_map_chapters and its helpers) and merging each group        *)
(* (merge_clips, _merge_clips, _move).                                     *)
(*                                                                         *)
(* A file name is a sequence of one-character strings, so that splitext,   *)
(* lower(), the [2:] slice, int() and the lexical sort are computed as the *)
(* code computes them.  A path is a sequence of names (its components).    *)
(***************************************************************************)
EXTENDS Integers, Sequences, FiniteSets, TLC

\* Number of directory entries created before merge_clips is called.
MaxFiles == 4

-----------------------------------------------------------------------------
(* Characters and strings *)

Digits == <<"0", "1", "2", "3", "4", "5", "6", "7", "8", "9">>

Upper == <<"A", "B", "C", "D", "E", "F", "G", "H", "I", "J", "K", "L", "M",
           "N", "O", "P", "Q", "R", "S", "T", "U", "V", "W", "X", "Y", "Z">>

Lower == <<"a", "b", "c", "d", "e", "f", "g", "h", "i", "j", "k", "l", "m",
           "n", "o", "p", "q", "r", "s", "t", "u", "v", "w", "x", "y", "z">>

\* ord(c) - ord("0") of a digit, ord(c) - ord("A") of a capital and
\* ord(c) - ord("a") of a small letter.
DigitOf == [c \in {Digits[i] : i \in DOMAIN Digits} |->
               (CHOOSE i \in DOMAIN Digits : Digits[i] = c) - 1]

UpperOf == [c \in {Upper[i] : i \in DOMAIN Upper} |->
               (CHOOSE i \in DOMAIN Upper : Upper[i] = c) - 1]

LowerOf == [c \in {Lower[i] : i \in DOMAIN Lower} |->
               (CHOOSE i \in DOMAIN Lower : Lower[i] = c) - 1]

IsDigit(c) == c \in DOMAIN DigitOf

\* The vertical tab, chr(11): it has no escape, the character itself
\* stands between the quotes.
VT == ""

\* The ASCII characters int() takes for white space.
Whitespace == {" ", "\t", "\n", VT, "\f", "\r"}

\* ord(c) for the characters that occur in names and paths.
Ord(c) ==
    IF c = "\t" THEN 9
    ELSE IF c = "\n" THEN 10
    ELSE IF c = VT THEN 11
    ELSE IF c = "\f" THEN 12
    ELSE IF c = "\r" THEN 13
    ELSE IF c = " " THEN 32
    ELSE IF c = "+" THEN 43
    ELSE IF c = "-" THEN 45
    ELSE IF c = "." THEN 46
    ELSE IF c = "/" THEN 47
    ELSE IF c = "_" THEN 95
    ELSE IF c \in DOMAIN DigitOf THEN 48 + DigitOf[c]
    ELSE IF c \in DOMAIN UpperOf THEN 65 + UpperOf[c]
    ELSE 97 + LowerOf[c]

\* str.lower(), character by character.
lower(s) ==
    [i \in DOMAIN s |->
        IF s[i] \in DOMAIN UpperOf THEN Lower[UpperOf[s[i]] + 1] ELSE s[i]]

\* Python's < on str: the first differing character decides, a proper
\* prefix is smaller.
StrLess(a, b) ==
    \E i \in 1..(Len(b)) :
        /\ \A j \in 1..(i - 1) : j <= Len(a) /\ a[j] = b[j]
        /\ \/ i = Len(a) + 1
           \/ i <= Len(a) /\ Ord(a[i]) < Ord(b[i])

\* os.path.splitext on a name without directory separators: split at the
\* last dot unless only dots precede it.
splitext(p) ==
    LET dots == {i \in DOMAIN p : p[i] = "."}
        d    == IF dots = {} THEN 0
                ELSE CHOOSE i \in dots : \A j \in dots : j <= i
    IN  IF d > 0 /\ \E j \in 1..(d - 1) : p[j] # "."
        THEN <<SubSeq(p, 1, d - 1), SubSeq(p, d, Len(p))>>
        ELSE <<p, <<>>>>

\* s[n:] for a non-negative n.
From(s, n) == SubSeq(s, n + 1, Len(s))

RECURSIVE DigitsValue(_)
DigitsValue(s) ==
    IF s = <<>> THEN 0
    ELSE 10 * DigitsValue(SubSeq(s, 1, Len(s) - 1)) + DigitOf[s[Len(s)]]

\* What int() parses: the string without the white space around it.
RECURSIVE strip(_)
strip(s) ==
    IF s = <<>> THEN s
    ELSE IF s[1] \in Whitespace THEN strip(Tail(s))
    ELSE IF s[Len(s)] \in Whitespace THEN strip(SubSeq(s, 1, Len(s) - 1))
    ELSE s

\* int(s) in base 10 on ASCII strings: white space around the literal is
\* dropped, one sign may lead, and the digits may be separated by single
\* underscores; anything else (the empty string, a letter, a dot) raises
\* ValueError.
int(s) ==
    LET t      == strip(s)
        signed == t # <<>> /\ t[1] \in {"+", "-"}
        body   == IF signed THEN Tail(t) ELSE t
        wellFormed ==
            /\ body # <<>>
            /\ \A i \in DOMAIN body :
                  \/ IsDigit(body[i])
                  \/ /\ body[i] = "_"
                     /\ 1 < i
                     /\ i < Len(body)
                     /\ IsDigit(body[i - 1])
                     /\ IsDigit(body[i + 1])
        value  == DigitsValue(SelectSeq(body, IsDigit))
    IN  IF wellFormed
        THEN [ok |-> TRUE,
              val |-> IF signed /\ t[1] = "-" THEN 0 - value ELSE value]
        ELSE [ok |-> FALSE, val |-> 0]

\* VALID = ('mp4', 'mov', 'avi')
VALID == {<<"m", "p", "4">>, <<"m", "o", "v">>, <<"a", "v", "i">>}

-----------------------------------------------------------------------------
(* Sequences *)

Range(s) == {s[i] : i \in DOMAIN s}

Min(S) == CHOOSE x \in S : \A y \in S : x <= y

Max(S) == CHOOSE x \in S : \A y \in S : y <= x

\* list.sort() of a set of distinct integers.
RECURSIVE SortInts(_)
SortInts(S) ==
    IF S = {} THEN <<>> ELSE <<Min(S)>> \o SortInts(S \ {Min(S)})

\* seq[a:b] with Python's rules: negative bounds count from the end and
\* the bounds are clamped; a and b are 0-based, b exclusive.
PySlice(s, a, b) ==
    LET n  == Len(s)
        a1 == IF a < 0 THEN (IF a + n < 0 THEN 0 ELSE a + n)
              ELSE (IF a > n THEN n ELSE a)
        b1 == IF b < 0 THEN (IF b + n < 0 THEN 0 ELSE b + n)
              ELSE (IF b > n THEN n ELSE b)
    IN  SubSeq(s, a1 + 1, b1)

\* groupby(enumerate(xs), lambda ix: ix[0] - ix[1]) followed by
\* map(itemgetter(1), ...): the maximal blocks of adjacent elements that
\* share index - value.
RECURSIVE GroupFrom(_, _, _)
GroupFrom(xs, i, acc) ==
    IF i > Len(xs) THEN acc
    ELSE IF acc # <<>> /\ (i - 1) - xs[i] = (i - 2) - xs[i - 1]
         THEN GroupFrom(xs, i + 1,
                  [acc EXCEPT ![Len(acc)] = Append(acc[Len(acc)], xs[i])])
         ELSE GroupFrom(xs, i + 1, Append(acc, <<xs[i]>>))

GroupConsecutive(xs) == GroupFrom(xs, 1, <<>>)

-----------------------------------------------------------------------------
(* Paths *)

None == <<>>

\* The directory handed to merge_clips, and the directory of tempfile.
path == << <<"c", "a", "r", "d">> >>

tempdir == << <<"t", "m", "p">> >>

\* os.path.join(p, name)
join(p, name) == Append(p, name)

\* os.path.basename(p)
basename(p) == p[Len(p)]

\* The string a path stands for: its components joined by "/".
RECURSIVE PathStr(_)
PathStr(p) ==
    IF p = <<>> THEN <<>>
    ELSE IF Len(p) = 1 THEN p[1]
    ELSE p[1] \o <<"/">> \o PathStr(Tail(p))

\* list.sort() of a list of distinct paths (strings).
RECURSIVE SortPaths(_)
SortPaths(S) ==
    IF S = {} THEN <<>>
    ELSE LET m == CHOOSE x \in S :
                      \A y \in S \ {x} : StrLess(PathStr(x), PathStr(y))
         IN  <<m>> \o SortPaths(S \ {m})

-----------------------------------------------------------------------------
(* The grouping functions.  movies is the list of scanned names in the     *)
(* order os.listdir gave them; stat is the function name |-> st_mtime.     *)

\* The dict key _map_movies computes for one movie.
MovieKey(movie) == int(From(splitext(movie)[1], 2))

\* _map_movies: {int(basename[2:]): movie}; a later movie with the same key
\* overwrites an earlier one; int() raises ValueError.
_map_movies(movies) ==
    LET keyOf == [i \in DOMAIN movies |-> MovieKey(movies[i])]
        keys  == {keyOf[i].val : i \in DOMAIN movies}
    IN  IF \E i \in DOMAIN movies : ~keyOf[i].ok
        THEN [ok |-> FALSE, val |-> <<>>]
        ELSE [ok  |-> TRUE,
              val |-> [k \in keys |->
                         movies[Max({i \in DOMAIN movies :
                                        keyOf[i].val = k})]]]

\* The runs of consecutive keys, in ascending order (the loop of lines
\* 206-208).
SequentialRuns(mapped) ==
    LET groups == GroupConsecutive(SortInts(DOMAIN mapped))
    IN  [g \in DOMAIN groups |->
            [j \in DOMAIN groups[g] |-> mapped[groups[g][j]]]]

\* Mutant of FirstChapters: the runs are ordered by length before the first
\* is taken, so the longest run (the earliest among several) is picked.
FirstChaptersLongest(runs) ==
    IF runs = <<>> THEN <<>>
    ELSE runs[CHOOSE i \in DOMAIN runs :
                 \A j \in DOMAIN runs :
                     \/ Len(runs[j]) < Len(runs[i])
                     \/ Len(runs[j]) = Len(runs[i]) /\ i <= j]

\* What _sort_sequential_movies picks from the runs: sorted() on line 209
\* returns a new list that is dropped, so the first run stays at index 0.
FirstChapters(runs) == IF runs = <<>> THEN <<>> ELSE runs[1]

\* _sort_sequential_movies
_sort_sequential_movies(movies) ==
    LET mapped == _map_movies(movies)
    IN  IF ~mapped.ok THEN [ok |-> FALSE, val |-> <<>>]
        ELSE [ok |-> TRUE, val |-> FirstChapters(SequentialRuns(mapped.val))]

\* _sort_by_mtime: {st_mtime: movie}, a later movie with the same st_mtime
\* overwrites an earlier one; then the movies by ascending st_mtime.
_sort_by_mtime(movies, stat) ==
    LET times == {stat[movies[i]] : i \in DOMAIN movies}
        mtime_mapping ==
            [t \in times |->
                movies[Max({i \in DOMAIN movies : stat[movies[i]] = t})]]
        mtime == SortInts(times)
    IN  [i \in DOMAIN mtime |-> mtime_mapping[mtime[i]]]

\* list.index, 0-based.
IndexOf(s, x) == Min({i \in DOMAIN s : s[i] = x}) - 1

\* Mutant of GroupSlice: the slice begins at the first index of the group,
\* without the movie before it.
GroupSliceNoLead(sorted_by_mtime, grouped_indices) ==
    PySlice(sorted_by_mtime,
            grouped_indices[1],
            grouped_indices[Len(grouped_indices)] + 1)

\* Mutant of GroupSlice: the slice ends one movie later.
GroupSliceWide(sorted_by_mtime, grouped_indices) ==
    PySlice(sorted_by_mtime,
            grouped_indices[1] - 1,
            grouped_indices[Len(grouped_indices)] + 2)

\* The slice of sorted_by_mtime one group of indices selects.
GroupSlice(sorted_by_mtime, grouped_indices) ==
    PySlice(sorted_by_mtime,
            grouped_indices[1] - 1,
            grouped_indices[Len(grouped_indices)] + 1)

\* The loop of lines 274-283 over the groups g.. of indices: acc is
\* [err, order, mapping]; order is the insertion order of the dict.
RECURSIVE ChapterLoop(_, _, _, _)
ChapterLoop(groups, g, sorted_by_mtime, acc) ==
    IF g > Len(groups) THEN acc
    ELSE LET grouped_movies == GroupSlice(sorted_by_mtime, groups[g])
         IN  IF grouped_movies = <<>>
             THEN [err |-> "IndexError", order |-> <<>>, mapping |-> <<>>]
             ELSE LET key    == splitext(grouped_movies[1])[1]
                      record == [clips |-> [i \in DOMAIN grouped_movies |->
                                              join(path, grouped_movies[i])],
                                 command |-> None,
                                 output  |-> None]
                  IN  IF key \in DOMAIN acc.mapping
                      THEN ChapterLoop(groups, g + 1, sorted_by_mtime, acc)
                      ELSE ChapterLoop(groups, g + 1, sorted_by_mtime,
                               [err     |-> "",
                                order   |-> Append(acc.order, key),
                                mapping |-> (key :> record) @@ acc.mapping])

\* The movies os.listdir yields that pass the extension test (lines
\* 237-240); listing is the sequence of names in os.listdir order.
ValidMovie(movie) == lower(From(splitext(movie)[2], 1)) \in VALID

ScanMovies(listing) == SelectSeq(listing, ValidMovie)

\* Lines 265-267: the indices in sorted_by_mtime of the movies that are
\* not in sequential_movies, ascending.
DiffIndices(sorted_by_mtime, sequential) ==
    LET diff_movies == Range(sorted_by_mtime) \ Range(sequential)
    IN  SortInts({IndexOf(sorted_by_mtime, d) : d \in diff_movies})

\* Mutant of NothingSequential: a single sequential movie counts as none.
AtMostOneSequential(sequential) == Len(sequential) <= 1

\* Line 245: `if not sequential_movies`
NothingSequential(sequential) == sequential = <<>>

\* _map_chapters from the scanned movies on: its result and its locals.
_map_chapters(movies, stat) ==
    LET seq == _sort_sequential_movies(movies)
        sorted_by_mtime == _sort_by_mtime(movies, stat)
        groups == GroupConsecutive(DiffIndices(sorted_by_mtime, seq.val))
        empty  == [err |-> "", order |-> <<>>, mapping |-> <<>>]
        unset  == [sequential_movies |-> <<>>, sorted_by_mtime |-> <<>>]
    IN  IF ~seq.ok
        THEN [err |-> "ValueError", order |-> <<>>, mapping |-> <<>>] @@ unset
        ELSE IF NothingSequential(seq.val)
        THEN empty @@ [sequential_movies |-> seq.val,
                       sorted_by_mtime   |-> <<>>]
        ELSE ChapterLoop(groups, 1, sorted_by_mtime, empty)
             @@ [sequential_movies |-> seq.val,
                 sorted_by_mtime   |-> sorted_by_mtime]

-----------------------------------------------------------------------------
(* The directories explored.  Names follow the camera's convention         *)
(* (GH, a two-digit chapter, a four-digit recording number, as in          *)
(* _unittest.py) or break it in one of the ways the scan can meet.         *)

GH(digits, ext) == <<"G", "H">> \o digits \o ext

MP4 == <<".", "M", "P", "4">>

GH010013_MP4 == GH(<<"0", "1", "0", "0", "1", "3">>, MP4)

GH020013_MP4 == GH(<<"0", "2", "0", "0", "1", "3">>, MP4)

GH030013_MP4 == GH(<<"0", "3", "0", "0", "1", "3">>, MP4)

GH010014_MP4 == GH(<<"0", "1", "0", "0", "1", "4">>, MP4)

GH020014_MP4 == GH(<<"0", "2", "0", "0", "1", "4">>, MP4)

\* The same sequence key as GH010013.MP4 under another valid extension.
GH010013_mov == GH(<<"0", "1", "0", "0", "1", "3">>, <<".", "m", "o", "v">>)

\* The camera's thumbnail of a recording: not a movie extension.
GH010013_THM == GH(<<"0", "1", "0", "0", "1", "3">>, <<".", "T", "H", "M">>)

\* An entry without an extension, named like a group key.
GH010014 == GH(<<"0", "1", "0", "0", "1", "4">>, <<>>)

\* A movie whose number is written with an underscore: int() reads 10014,
\* the key of GH010014.MP4.
GH1_0014_MP4 == GH(<<"1", "_", "0", "0", "1", "4">>, MP4)

\* A movie whose base name holds no number.
notes_mp4 == <<"n", "o", "t", "e", "s", ".", "m", "p", "4">>

File(n) == [name |-> n, kind |-> "file"]

Dir(n) == [name |-> n, kind |-> "dir"]

\* Names of the test directories and other chapters of them.
CardPool ==
    {File(GH010013_MP4), File(GH020013_MP4), File(GH030013_MP4),
     File(GH010014_MP4), File(GH020014_MP4)}

\* A recording and what else a camera, a person or an earlier run may
\* leave beside it.
DiskPool ==
    {File(GH010014_MP4), File(GH020014_MP4), File(GH1_0014_MP4),
     File(notes_mp4), File(GH010013_THM), Dir(GH010014), File(GH010014)}

\* Movies of a directory copied to a volume with coarse timestamps.
CopyPool ==
    {File(GH010013_MP4), File(GH020013_MP4), File(GH010014_MP4),
     File(GH010013_mov)}

-----------------------------------------------------------------------------
(* State *)

VARIABLES
    volume,             \* "card": test files, each with a later
                        \* st_mtime; "disk": other entries beside a
                        \* recording; "copy": equal st_mtime possible
    root,               \* the directory `path`: its entries in the order
                        \* they were made
    tmp,                \* the files in the temporary directory
    ran,                \* the commands handed to Popen, in order
    ntmp,               \* names tempfile.mktemp has handed out
    pc,                 \* position in merge_clips
    dryrun,             \* merge_clips' argument
    root0,              \* the directory as it was when merge_clips began
    sequential_movies,  \* what _map_chapters' helpers returned to it
    sorted_by_mtime,
    order,              \* the keys of mapping in insertion order
    mapping,            \* key |-> [clips, command, output]
    ki,                 \* index in order of the key the loop is at
    mi,                 \* index in clips of the clip to move next
    err                 \* the exception merge_clips ended with

vars == <<volume, root, tmp, ran, ntmp, pc, dryrun, root0,
          sequential_movies, sorted_by_mtime, order, mapping, ki, mi, err>>

NoError == [type |-> "", msg |-> None]

Names(r) == {r[i].name : i \in DOMAIN r}

Entry(r, n) == r[CHOOSE i \in DOMAIN r : r[i].name = n]

\* os.stat(...).st_mtime of the entries of a directory.
Stat(r) == [n \in Names(r) |-> Entry(r, n).mtime]

\* The orders of a set of names.
RECURSIVE Orders(_)
Orders(S) ==
    IF S = {} THEN {<<>>}
    ELSE UNION {{<<n>> \o o : o \in Orders(S \ {n})} : n \in S}

\* os.listdir(path): the names of the entries, in arbitrary order.
listdir(r) == Orders(Names(r))

Remove(r, n) == SelectSeq(r, LAMBDA e : e.name # n)

LastMtime(r) == IF r = <<>> THEN 0 ELSE Max({r[i].mtime : i \in DOMAIN r})

\* A new entry: a file holds its own footage, a directory is empty.
NewEntry(e, t) ==
    [name |-> e.name, kind |-> e.kind, mtime |-> t,
     data |-> IF e.kind = "file" THEN <<e.name>> ELSE <<>>,
     items |-> {}]

Init ==
    /\ volume \in {"card", "disk", "copy"}
    /\ root = <<>>
    /\ tmp = {}
    /\ ran = <<>>
    /\ ntmp = 0
    /\ pc = "idle"
    /\ dryrun = FALSE
    /\ root0 = <<>>
    /\ sequential_movies = <<>>
    /\ sorted_by_mtime = <<>>
    /\ order = <<>>
    /\ mapping = <<>>
    /\ ki = 0
    /\ mi = 0
    /\ err = NoError

\* _create_test_files: one entry after the other, the clock moving on
\* between two of them.
Touch(e) ==
    /\ pc = "idle"
    /\ volume = "card"
    /\ Len(root) < MaxFiles
    /\ e.name \notin Names(root)
    /\ root' = Append(root, NewEntry(e, LastMtime(root) + 1))
    /\ UNCHANGED <<volume, tmp, ran, ntmp, pc, dryrun, root0,
                   sequential_movies, sorted_by_mtime, order, mapping, ki,
                   mi, err>>

\* An entry of another kind or name made beside a recording.
Store(e) ==
    /\ pc = "idle"
    /\ volume = "disk"
    /\ Len(root) < MaxFiles
    /\ e.name \notin Names(root)
    /\ root' = Append(root, NewEntry(e, LastMtime(root) + 1))
    /\ UNCHANGED <<volume, tmp, ran, ntmp, pc, dryrun, root0,
                   sequential_movies, sorted_by_mtime, order, mapping, ki,
                   mi, err>>

\* An entry of a copied directory: its st_mtime is that of the latest
\* entry (dt = 0) or later (dt = 1).
Place(e, dt) ==
    /\ pc = "idle"
    /\ volume = "copy"
    /\ Len(root) < MaxFiles
    /\ e.name \notin Names(root)
    /\ LET t == IF root = <<>> THEN 1 ELSE LastMtime(root) + dt
       IN  root' = Append(root, NewEntry(e, t))
    /\ UNCHANGED <<volume, tmp, ran, ntmp, pc, dryrun, root0,
                   sequential_movies, sorted_by_mtime, order, mapping, ki,
                   mi, err>>

\* Lines 237-240 for every order os.listdir may give the names in.
Scans(r) == {ScanMovies(listing) : listing \in listdir(r)}

\* merge_clips(path, dryrun) up to the loop: the call of _map_chapters,
\* whose scan of the directory gives `scanned`.
Call(d, scanned) ==
    /\ pc = "idle"
    /\ dryrun' = d
    /\ root0' = root
    /\ LET r == _map_chapters(scanned, Stat(root))
       IN  /\ sequential_movies' = r.sequential_movies
           /\ sorted_by_mtime' = r.sorted_by_mtime
           /\ order' = r.order
           /\ mapping' = r.mapping
           /\ IF r.err = ""
              THEN pc' = "loop" /\ ki' = 1 /\ err' = err
              ELSE pc' = "raised" /\ ki' = ki
                   /\ err' = [type |-> r.err, msg |-> None]
    /\ UNCHANGED <<volume, root, tmp, ran, ntmp, mi>>

-----------------------------------------------------------------------------
(* The collaborators: tempfile, the transcoder, shutil.move *)

\* tempfile.mktemp(suffix): a name in the temporary directory that no
\* earlier call returned; n counts the calls so far.
mktemp(n, suffix) == join(tempdir, <<"t", "m", "p", Digits[n + 2]>> \o suffix)

\* EXE % {'text': tmp_text, 'output': output}
Command(tmp_text, output) ==
    <<"ffmpeg", "-f", "concat", "-safe", "0", "-i", tmp_text,
      "-c:v", "copy", output>>

\* "file '%s'" % clip, one line per clip.
ManifestText(clips) == [i \in DOMAIN clips |-> <<"file", clips[i]>>]

\* What _merge_clips computes before it touches anything (lines 100-117).
MergePlan(clips, n) ==
    LET tmp_text == mktemp(n, <<>>)
        output   == mktemp(n + 1, splitext(basename(clips[1]))[2])
    IN  [text |-> ManifestText(clips), tmp_text |-> tmp_text,
         output |-> output, command |-> Command(tmp_text, output)]

\* Mutant of RuntimeError: the message names the manifest, not the command.
RuntimeErrorOfManifest(command) == [type |-> "RuntimeError", msg |-> command[7]]

\* The exception of line 125.
RuntimeError(command) == [type |-> "RuntimeError", msg |-> command]

\* The footage of the clips one after the other: what a transcoder that
\* exits with 0 leaves at the output (section 6 of the specification).
RECURSIVE Concat(_, _)
Concat(r, clips) ==
    IF clips = <<>> THEN <<>>
    ELSE Entry(r, basename(clips[1])).data \o Concat(r, Tail(clips))

\* The transcoder can read every clip.
Readable(r, clips) ==
    \A i \in DOMAIN clips :
        /\ basename(clips[i]) \in Names(r)
        /\ Entry(r, basename(clips[i])).kind = "file"

\* shutil.move(src, dst) at the time `now` for two paths in `path`.  If
\* dst is a directory: src being that directory, nothing changes; else
\* src goes into it with what it holds, an entry of src's name there is an
\* error, found before src is looked at, and the directory's st_mtime
\* becomes the time of the move.  Else os.rename, which replaces a file at
\* dst by a file and keeps the st_mtime of src; a directory is not put in
\* the place of a file.
shutil_move(r, src, dst, now) ==
    LET s == basename(src)
        d == basename(dst)
        isdir == d \in Names(r) /\ Entry(r, d).kind = "dir"
    IN  IF isdir /\ s = d
        THEN [err |-> "", root |-> r]
        ELSE IF isdir /\ \E x \in Entry(r, d).items : x.name = s
        THEN [err |-> "shutil.Error", root |-> r]
        ELSE IF s \notin Names(r)
        THEN [err |-> "FileNotFoundError", root |-> r]
        ELSE IF isdir
        THEN [err |-> "",
              root |-> LET moved == Entry(r, s)
                           rest  == Remove(r, s)
                       IN  [i \in DOMAIN rest |->
                              IF rest[i].name = d
                              THEN [rest[i] EXCEPT !.items = @ \cup {moved},
                                                   !.mtime = now]
                              ELSE rest[i]]]
        ELSE IF s = d
        THEN [err |-> "", root |-> r]
        ELSE IF d \in Names(r) /\ Entry(r, s).kind = "dir"
        THEN [err |-> "FileExistsError", root |-> r]
        ELSE [err |-> "",
              root |-> LET rest == Remove(r, d)
                       IN  [i \in DOMAIN rest |->
                              IF rest[i].name = s
                              THEN [rest[i] EXCEPT !.name = d]
                              ELSE rest[i]]]

\* shutil.move(src, dst) at the time `now` for a temporary file src and a
\* path dst in `path`, by the same rules.
shutil_move_in(r, t, src, dst, now) ==
    LET d == basename(dst)
        isdir == d \in Names(r) /\ Entry(r, d).kind = "dir"
    IN  IF isdir /\ \E x \in Entry(r, d).items : x.name = basename(src)
        THEN [err |-> "shutil.Error", root |-> r, tmp |-> t]
        ELSE IF \A f \in t : f.name # src
        THEN [err |-> "FileNotFoundError", root |-> r, tmp |-> t]
        ELSE LET f == CHOOSE x \in t : x.name = src
                 moved(n) == [name |-> n, kind |-> "file", mtime |-> now,
                              data |-> f.data, items |-> {}]
             IN  IF isdir
                 THEN [err |-> "", tmp |-> t \ {f},
                       root |-> [i \in DOMAIN r |->
                                   IF r[i].name = d
                                   THEN [r[i] EXCEPT !.items =
                                           @ \cup {moved(basename(src))},
                                           !.mtime = now]
                                   ELSE r[i]]]
                 ELSE [err |-> "", tmp |-> t \ {f},
                       root |-> Append(Remove(r, d), moved(d))]

-----------------------------------------------------------------------------
(* The loop of merge_clips, one step per action *)

\* The key and the record the loop is at.
Key == order[ki]

Clips == mapping[Key].clips

KeyPath == join(path, Key)

\* The time of the call: later than every entry.
Now == LastMtime(root0) + 1

\* Lines 45-46: a group of fewer than two clips is passed over.
Skip ==
    /\ pc = "loop"
    /\ ki <= Len(order)
    /\ Len(Clips) < 2
    /\ ki' = ki + 1
    /\ UNCHANGED <<volume, root, tmp, ran, ntmp, pc, dryrun, root0,
                   sequential_movies, sorted_by_mtime, order, mapping, mi, err>>

\* Line 48: clips.sort()
Sort ==
    /\ pc = "loop"
    /\ ki <= Len(order)
    /\ Len(Clips) >= 2
    /\ mapping' = [mapping EXCEPT ![Key].clips = SortPaths(Range(Clips))]
    /\ pc' = "merge"
    /\ UNCHANGED <<volume, root, tmp, ran, ntmp, dryrun, root0,
                   sequential_movies, sorted_by_mtime, order, ki, mi, err>>

\* Line 49 with dryrun: _merge_clips only names the files and the command.
MergeDry ==
    /\ pc = "merge"
    /\ dryrun
    /\ LET plan == MergePlan(Clips, ntmp)
       IN  mapping' = [mapping EXCEPT ![Key].command = plan.command,
                                      ![Key].output = plan.output]
    /\ ntmp' = ntmp + 2
    /\ pc' = "mkdir"
    /\ UNCHANGED <<volume, root, tmp, ran, dryrun, root0,
                   sequential_movies, sorted_by_mtime, order, ki, mi, err>>

\* Line 49, live, the transcoder exits with 0: the manifest is written,
\* the output produced, the manifest removed.
MergeOk ==
    /\ pc = "merge"
    /\ ~dryrun
    /\ Readable(root, Clips)
    /\ LET plan == MergePlan(Clips, ntmp)
       IN  /\ tmp' = tmp \cup {[name |-> plan.output,
                                data |-> Concat(root, Clips)]}
           /\ ran' = Append(ran, plan.command)
           /\ mapping' = [mapping EXCEPT ![Key].command = plan.command,
                                         ![Key].output = plan.output]
    /\ ntmp' = ntmp + 2
    /\ pc' = "mkdir"
    /\ UNCHANGED <<volume, root, dryrun, root0, sequential_movies,
                   sorted_by_mtime, order, ki, mi, err>>

\* Line 49, live, the transcoder exits with another status: RuntimeError
\* leaves _merge_clips and merge_clips; the manifest stays, and an output
\* may have been begun.
MergeFail(partial) ==
    /\ pc = "merge"
    /\ ~dryrun
    /\ LET plan == MergePlan(Clips, ntmp)
       IN  /\ tmp' = tmp \cup {[name |-> plan.tmp_text, data |-> plan.text]}
                         \cup (IF partial
                               THEN {[name |-> plan.output, data |-> <<>>]}
                               ELSE {})
           /\ ran' = Append(ran, plan.command)
           /\ err' = RuntimeError(plan.command)
    /\ ntmp' = ntmp + 2
    /\ pc' = "raised"
    /\ UNCHANGED <<volume, root, dryrun, root0, sequential_movies,
                   sorted_by_mtime, order, mapping, ki, mi>>

\* Lines 50-55: os.makedirs(key_path) unless something exists there.
MakeDirs ==
    /\ pc = "mkdir"
    /\ root' = IF Key \in Names(root) \/ dryrun
               THEN root
               ELSE Append(root, NewEntry(Dir(Key), Now))
    /\ pc' = "move"
    /\ mi' = 1
    /\ UNCHANGED <<volume, tmp, ran, ntmp, dryrun, root0,
                   sequential_movies, sorted_by_mtime, order, mapping, ki, err>>

\* Lines 57-58: _move(clip, key_path, dryrun) for the next clip.
MoveClip ==
    /\ pc = "move"
    /\ mi <= Len(Clips)
    /\ LET r == shutil_move(root, Clips[mi], KeyPath, Now)
       IN  IF dryrun
           THEN mi' = mi + 1 /\ UNCHANGED <<root, pc, err>>
           ELSE IF r.err = ""
           THEN root' = r.root /\ mi' = mi + 1 /\ UNCHANGED <<pc, err>>
           ELSE /\ pc' = "raised"
                /\ err' = [type |-> r.err, msg |-> None]
                /\ UNCHANGED <<root, mi>>
    /\ UNCHANGED <<volume, tmp, ran, ntmp, dryrun, root0,
                   sequential_movies, sorted_by_mtime, order, mapping, ki>>

\* Line 60: _move(mapping[key]['output'], clips[0], dryrun), then the next
\* key.
MoveOutput ==
    /\ pc = "move"
    /\ mi > Len(Clips)
    /\ LET r == shutil_move_in(root, tmp, mapping[Key].output, Clips[1], Now)
       IN  IF dryrun
           THEN pc' = "loop" /\ ki' = ki + 1 /\ UNCHANGED <<root, tmp, err>>
           ELSE IF r.err = ""
           THEN /\ root' = r.root
                /\ tmp' = r.tmp
                /\ pc' = "loop"
                /\ ki' = ki + 1
                /\ err' = err
           ELSE /\ pc' = "raised"
                /\ err' = [type |-> r.err, msg |-> None]
                /\ UNCHANGED <<root, tmp, ki>>
    /\ UNCHANGED <<volume, ran, ntmp, dryrun, root0,
                   sequential_movies, sorted_by_mtime, order, mapping, mi>>

\* Line 62: return mapping
Return ==
    /\ pc = "loop"
    /\ ki > Len(order)
    /\ pc' = "done"
    /\ UNCHANGED <<volume, root, tmp, ran, ntmp, dryrun, root0,
                   sequential_movies, sorted_by_mtime, order, mapping, ki, mi,
                   err>>

Next ==
    \/ \E e \in CardPool : Touch(e)
    \/ \E e \in DiskPool : Store(e)
    \/ \E e \in CopyPool, dt \in {0, 1} : Place(e, dt)
    \/ pc = "idle" /\ \E d \in BOOLEAN, scanned \in Scans(root) :
                         Call(d, scanned)
    \/ Skip
    \/ Sort
    \/ MergeDry
    \/ MergeOk
    \/ \E partial \in BOOLEAN : MergeFail(partial)
    \/ MakeDirs
    \/ MoveClip
    \/ MoveOutput
    \/ Return

Spec == Init /\ [][Next]_vars

-----------------------------------------------------------------------------
(* Vocabulary of the properties *)

\* merge_clips has been called.
Called == pc # "idle"

\* _map_chapters returned a mapping.
Mapped == Called /\ err.type \notin {"ValueError", "IndexError"}

\* The entry is a regular file named as the camera names a movie: GH, six
\* digits, a movie extension.
CameraNamed(e) ==
    /\ e.kind = "file"
    /\ ValidMovie(e.name)
    /\ Len(splitext(e.name)[1]) = 8
    /\ SubSeq(e.name, 1, 2) = <<"G", "H">>
    /\ \A i \in 3..8 : IsDigit(e.name[i])

AllCameraNamed(r) == \A i \in DOMAIN r : CameraNamed(r[i])

DistinctMtimes(r) ==
    \A i, j \in DOMAIN r : i # j => r[i].mtime # r[j].mtime

KeyOfName(n) == MovieKey(n).val

\* The names the scan of a directory keeps.
Scanned(r) == {n \in Names(r) : ValidMovie(n)}

KeysOf(r) == {KeyOfName(n) : n \in Names(r)}

DistinctKeys(r) ==
    \A m, n \in Names(r) : m # n => KeyOfName(m) # KeyOfName(n)

\* The maximal run of consecutive keys of K that begins at k.
RunFrom(K, k) == {j \in K : j >= k /\ \A i \in k..j : i \in K}

MaximalRuns(K) == {RunFrom(K, k) : k \in {x \in K : x - 1 \notin K}}

\* The run of greatest length, the one with the smallest first key among
\* several.
LongestRun(K) ==
    CHOOSE R \in MaximalRuns(K) :
        \A Q \in MaximalRuns(K) :
            \/ Cardinality(Q) < Cardinality(R)
            \/ Cardinality(Q) = Cardinality(R) /\ Min(R) <= Min(Q)

\* The run that holds the smallest key.
LowestRun(K) == RunFrom(K, Min(K))

ReturnedKeys ==
    [i \in DOMAIN sequential_movies |-> KeyOfName(sequential_movies[i])]

\* Chapter and recording number of a camera-named movie.
Chapter(n) == KeyOfName(n) \div 10000

Recording(n) == KeyOfName(n) % 10000

ChaptersOf(r, rec) == {n \in Names(r) : Recording(n) = rec}

FirstChapterOf(r, rec) ==
    CHOOSE n \in ChaptersOf(r, rec) :
        \A m \in ChaptersOf(r, rec) : Chapter(n) <= Chapter(m)

Recordings(r) == {Recording(n) : n \in Names(r)}

\* Position of an entry when the entries are ordered by st_mtime.
TimeRank(r, n) ==
    Cardinality({m \in Names(r) : Entry(r, m).mtime < Entry(r, n).mtime})

\* The paths of a set of camera-named movies by ascending key.
RECURSIVE ByKey(_)
ByKey(S) ==
    IF S = {} THEN <<>>
    ELSE LET n == CHOOSE x \in S : \A y \in S : KeyOfName(x) <= KeyOfName(y)
         IN  <<join(path, n)>> \o ByKey(S \ {n})

\* The groups handled so far: every key before the one the loop is at.
Finished(i) == i \in 1..Len(order) /\ i < ki /\ Len(mapping[order[i]].clips) >= 2

-----------------------------------------------------------------------------
(* C1 *)

\* C1 as stated: for camera-named files the Sequence Extractor returns the
\* longest run of consecutive keys (the one with the smallest first key
\* among several of that length), in ascending key order.
C1_LongestRun ==
    (Called /\ AllCameraNamed(root0) /\ root0 # <<>>)
        => ReturnedKeys = SortInts(LongestRun(KeysOf(root0)))

\* C1 amended: for camera-named files _sort_sequential_movies returns, in
\* ascending key order, one scanned file for each key of the maximal run of
\* consecutive keys that holds the smallest key, whatever the length of
\* that run.
C1_LowestRun ==
    (Called /\ AllCameraNamed(root0))
        => /\ ReturnedKeys =
                  IF root0 = <<>> THEN <<>>
                  ELSE SortInts(LowestRun(KeysOf(root0)))
           /\ Range(sequential_movies) \subseteq Names(root0)

\* A longer run of keys lies above the run that was returned.
C1_Witness ==
    /\ Called
    /\ AllCameraNamed(root0)
    /\ root0 # <<>>
    /\ Len(sequential_movies) = 1
    /\ Cardinality(LongestRun(KeysOf(root0))) >= 2

-----------------------------------------------------------------------------
(* C2 *)

\* The precondition of C2 on the directory merge_clips was called on.
C2_Recordings(r) ==
    /\ r # <<>>
    /\ AllCameraNamed(r)
    /\ DistinctMtimes(r)
    /\ DistinctKeys(r)
    /\ {KeyOfName(FirstChapterOf(r, rec)) : rec \in Recordings(r)}
           = LowestRun(KeysOf(r))
    /\ \A rec \in Recordings(r) :
          \A n \in ChaptersOf(r, rec) :
              /\ TimeRank(r, n) >= TimeRank(r, FirstChapterOf(r, rec))
              /\ TimeRank(r, n) < TimeRank(r, FirstChapterOf(r, rec))
                                      + Cardinality(ChaptersOf(r, rec))

\* C2: when the first chapters of the recordings are the run of the
\* smallest key and each recording's chapters follow its first chapter in
\* modification-time order, the dry run returns one group per recording of
\* two or more chapters, keyed by the base name of its first chapter, with
\* that recording's chapters in ascending chapter order, and no other
\* group.
C2_OneGroupPerRecording ==
    (pc = "done" /\ dryrun /\ C2_Recordings(root0))
        => LET multi == {rec \in Recordings(root0) :
                            Cardinality(ChaptersOf(root0, rec)) >= 2}
               keyOf(rec) == splitext(FirstChapterOf(root0, rec))[1]
           IN  /\ DOMAIN mapping = {keyOf(rec) : rec \in multi}
               /\ Len(order) = Cardinality(multi)
               /\ \A rec \in multi :
                     mapping[keyOf(rec)].clips = ByKey(ChaptersOf(root0, rec))
               /\ \A rec \in Recordings(root0) \ multi :
                     \A k \in DOMAIN mapping :
                         join(path, FirstChapterOf(root0, rec))
                             \notin Range(mapping[k].clips)

\* A recording of three chapters written out of chapter order, beside a
\* recording of one chapter.
C2_Witness ==
    /\ pc = "done"
    /\ dryrun
    /\ C2_Recordings(root0)
    /\ \E k \in DOMAIN mapping :
          /\ Len(mapping[k].clips) = 3
          /\ Entry(root0, basename(mapping[k].clips[2])).mtime
                 > Entry(root0, basename(mapping[k].clips[3])).mtime
    /\ \E rec \in Recordings(root0) : Cardinality(ChaptersOf(root0, rec)) = 1

-----------------------------------------------------------------------------
(* C3 *)

\* C3 as stated: a selected run of length 0 or 1 gives an empty mapping.
C3_ShortRunNoGroups ==
    (Mapped /\ Len(sequential_movies) <= 1) => mapping = <<>>

\* C3 amended: a selected run of length 0 gives an empty mapping; for a
\* selected run of length 1 the modification-time ordering is built, and
\* the mapping is empty exactly when that ordering holds no file outside
\* the run.
C3_EmptyRunNoGroups ==
    Mapped =>
        /\ Len(sequential_movies) = 0 => mapping = <<>>
        /\ Len(sequential_movies) = 1 =>
              /\ sorted_by_mtime # <<>>
              /\ mapping = <<>> <=>
                     Range(sorted_by_mtime) \subseteq Range(sequential_movies)

\* A run of length 1 whose later chapters were grouped with it.
C3_Witness ==
    /\ Mapped
    /\ Len(sequential_movies) = 1
    /\ mapping # <<>>
    /\ \E k \in DOMAIN mapping :
          basename(mapping[k].clips[1]) = sequential_movies[1]

-----------------------------------------------------------------------------
(* C4 *)

\* An entry the scan is to skip.
C4_Skipped(e) ==
    \/ e.kind # "file"
    \/ ~ValidMovie(e.name)
    \/ ~MovieKey(e.name).ok

\* What _map_chapters ended with: "" when it returned.
GroupingError ==
    IF err.type \in {"ValueError", "IndexError"} THEN err.type ELSE ""

\* C4: entries that are no regular file, have no movie extension or no
\* integer key are skipped without an error: _map_chapters ends as it ends
\* on the directory without them, with the same groups.
C4_SkipsOtherEntries ==
    Called =>
        LET kept == SelectSeq(root0, LAMBDA e : ~C4_Skipped(e))
        IN  \E scanned \in Scans(kept) :
                LET r == _map_chapters(scanned, Stat(kept))
                IN  /\ GroupingError = r.err
                    /\ r.err = "" =>
                          /\ order = r.order
                          /\ \A k \in DOMAIN mapping :
                                Range(mapping[k].clips)
                                    = Range(r.mapping[k].clips)

-----------------------------------------------------------------------------
(* C5 *)

\* C5: a dry run changes nothing (no manifest or output is written, no
\* command is run, the directory stays as it was), runs to completion on
\* every directory and returns command and output for every group of two
\* or more clips.
C5_DryRunCompletes ==
    (Called /\ dryrun) =>
        /\ root = root0
        /\ tmp = {}
        /\ ran = <<>>
        /\ pc # "raised"
        /\ pc = "done" =>
              \A k \in DOMAIN mapping :
                  Len(mapping[k].clips) >= 2 =>
                      /\ mapping[k].command # None
                      /\ mapping[k].output # None

\* The part of C5 that the code keeps, whatever the directory: no
\* mutation, and a plan for every group when the call returns.
DryRunNoMutation ==
    (Called /\ dryrun) =>
        /\ root = root0
        /\ tmp = {}
        /\ ran = <<>>
        /\ err.type \in {"", "ValueError", "IndexError"}
        /\ pc = "done" =>
              \A k \in DOMAIN mapping :
                  Len(mapping[k].clips) >= 2 =>
                      /\ mapping[k].command # None
                      /\ mapping[k].output # None

-----------------------------------------------------------------------------
(* C6 *)

\* C6: when the transcoder fails for a group, the error names the command
\* that was run, and for that group no sub-folder has been created, no
\* clip moved and no output put in place: each clip is where it was, with
\* its footage, and what is at the key's path was there before the call.
C6_FailureLeavesGroup ==
    (pc = "raised" /\ err.type = "RuntimeError") =>
        /\ ~dryrun
        /\ ran # <<>>
        /\ err.msg = ran[Len(ran)]
        /\ err.msg = MergePlan(Clips, ntmp - 2).command
        /\ \A i \in DOMAIN Clips :
              /\ basename(Clips[i]) \in Names(root)
              /\ Entry(root, basename(Clips[i]))
                     = Entry(root0, basename(Clips[i]))
        /\ Key \in Names(root) =>
              /\ Key \in Names(root0)
              /\ Entry(root, Key) = Entry(root0, Key)

\* The transcoder fails for the second group after the first was merged.
C6_Witness ==
    /\ pc = "raised"
    /\ err.type = "RuntimeError"
    /\ ki = 2
    /\ Len(ran) = 2

-----------------------------------------------------------------------------
(* C7 *)

\* C7: sorted_by_mtime holds every scanned movie exactly once, by
\* ascending modification time, equal times included.
C7_EveryMovieOnce ==
    (Mapped /\ sequential_movies # <<>>) =>
        /\ Len(sorted_by_mtime) = Cardinality(Scanned(root0))
        /\ Range(sorted_by_mtime) = Scanned(root0)
        /\ \A i, j \in DOMAIN sorted_by_mtime :
              i < j => Stat(root0)[sorted_by_mtime[i]]
                           <= Stat(root0)[sorted_by_mtime[j]]

-----------------------------------------------------------------------------
(* C8 *)

\* C8: live, for every group of two or more clips: the clips are sorted,
\* the transcoder has succeeded and the sub-folder named by the key exists
\* before a clip is moved; the clips are moved into the sub-folder; the
\* output is moved last, to the path of the first clip, where no clip is
\* left; afterwards the sub-folder holds every clip and the first clip's
\* path holds the merged output.
C8_MergeThenMove ==
    (Called /\ ~dryrun) =>
        /\ pc = "move" =>
              /\ Clips = SortPaths(Range(Clips))
              /\ \E f \in tmp : f.name = mapping[Key].output
              /\ Key \in Names(root)
              /\ Entry(root, Key).kind = "dir"
              /\ \A j \in 1..(mi - 1) :
                    /\ basename(Clips[j]) \in Names(root0)
                    /\ Entry(root0, basename(Clips[j]))
                           \in Entry(root, Key).items
              /\ mi > Len(Clips) => basename(Clips[1]) \notin Names(root)
        /\ err.type \notin {"FileNotFoundError", "FileExistsError",
                          "shutil.Error"}
        /\ \A i \in DOMAIN order :
              Finished(i) =>
                  LET k == order[i]
                      clips == mapping[k].clips
                  IN  /\ k \in Names(root)
                      /\ Entry(root, k).kind = "dir"
                      /\ \A j \in DOMAIN clips :
                            Entry(root0, basename(clips[j]))
                                \in Entry(root, k).items
                      /\ basename(clips[1]) \in Names(root)
                      /\ Entry(root, basename(clips[1])).data
                             = [j \in DOMAIN clips |-> basename(clips[j])]

\* C8 where nothing but a directory lies at the path of a group key.
MergeThenMoveUnlessFileAtKey ==
    (\A i \in DOMAIN root0 :
        root0[i].kind = "file" => root0[i].name \notin Range(order))
        => C8_MergeThenMove

-----------------------------------------------------------------------------
(* C9 *)

\* C9: on camera-named files with distinct modification times
\* _map_chapters raises nothing, also when the earliest file is outside
\* the selected run.
C9_NoException ==
    (Called /\ AllCameraNamed(root0) /\ DistinctMtimes(root0))
        => err.type \notin {"IndexError", "ValueError"}

-----------------------------------------------------------------------------
(* C10 *)

\* C10: in a mapping _map_chapters returned no path is in the clips of two
\* groups, and every run of complement indices has a key of its own.
C10_GroupsDisjoint ==
    Mapped =>
        /\ \A k1, k2 \in DOMAIN mapping :
              k1 # k2 => Range(mapping[k1].clips)
                             \cap Range(mapping[k2].clips) = {}
        /\ DOMAIN mapping = Range(order)
        /\ Len(order) = Cardinality(Range(order))
        /\ Len(order) =
              Len(GroupConsecutive(
                      DiffIndices(sorted_by_mtime, sequential_movies)))

\* Two groups.
C10_Witness ==
    /\ Mapped
    /\ Len(order) = 2
    /\ \A k \in DOMAIN mapping : Len(mapping[k].clips) = 2

====
